---- MODULE Spec2Model ----
(***************************************************************************)
(* Model of the BFL.ai edit-job client of src/src/bot.py:                  *)
(* BFLImageEditor.edit_image (submit) and BFLImageEditor._poll_for_result  *)
(* (bounded poll loop, status classification, result download).            *)
(*                                                                         *)
(* The remote service is the environment: every HTTP call draws its        *)
(* response from a small set.  Each Edit call keeps a log of the requests  *)
(* it issued and the suspensions it made, in program order.                *)
(*                                                                         *)
(* Also modelled: ImageProcessor.get_aspect_ratio of src/src/utils.py,     *)
(* with Python's float arithmetic (IEEE 754 binary64) carried out on bit   *)
(* strings, and the TelegramBot handlers of src/src/bot.py that keep the   *)
(* staged photo of one conversation in context.user_data.                  *)
(***************************************************************************)
EXTENDS Integers, Sequences, FiniteSets, TLC

VARIABLES max_polls, pc, poll_count, polling_url, events, result, exit,
          image_size, scale, closest_ratio,
          user_data, updates, jobs

\* the state of the Edit calls
edit_vars == <<max_polls, pc, poll_count, polling_url, events, result, exit>>

\* the classifier's input (width, height), a scale factor, and its output
classifier_vars == <<image_size, scale, closest_ratio>>

\* one conversation: context.user_data, the updates handled, the jobs submitted
bot_vars == <<user_data, updates, jobs>>

vars == <<max_polls, pc, poll_count, polling_url, events, result, exit,
          image_size, scale, closest_ratio, user_data, updates, jobs>>

(* ---------------------------------------------------------------------- *)
(* Bounds and program constants                                           *)
(* ---------------------------------------------------------------------- *)

\* largest configured BFL_MAX_POLLS explored
MaxPolls == 3

\* largest configured BFL_MAX_POLLS explored with two calls in flight
ConcMaxPolls == 1

\* largest image width and height classified, besides ExtraSizes
MaxDim == 12

\* largest factor an image is scaled by
MaxScale == 3

\* most updates handled in one conversation
MaxUpdates == 2

\* Config.MAX_IMAGE_SIZE_MB default
MAX_IMAGE_SIZE_MB == 20

\* Config.DEFAULT_ASPECT_RATIO default
DEFAULT_ASPECT_RATIO == "1:1"

\* Config.BFL_POLL_INTERVAL default
BFL_POLL_INTERVAL == 2

\* Config.BFL_API_URL
BFL_API_URL == "https://api.bfl.ai/v1/flux-kontext-pro"

\* the Edit calls (coroutines) of the model
Calls == {"c1", "c2"}

\* Python's None, and a key absent from a JSON object (dict.get gives None)
None == "None"

\* polling locators the service hands out
PollingUrls == {"poll_a", "poll_b"}

\* result locators the service hands out
SampleUrls == {"sample_a", "sample_b"}

\* bodies a download can carry
Bodies == {"img_1", "img_2"}

\* Python truthiness of an Optional[str]
Truthy(v) == v \notin {None, ""}

(* ---------------------------------------------------------------------- *)
(* What the service can answer                                            *)
(* ---------------------------------------------------------------------- *)

\* answers to the submission POST: net is what requests.post / raise_for_status
\* / json() do, polling_url is response_data.get("polling_url")
SubmitResponses ==
    {[net |-> n, polling_url |-> None] :
        n \in {"transport_error", "http_error", "bad_json"}}
    \cup {[net |-> "ok", polling_url |-> u] : u \in {None, ""} \cup PollingUrls}

\* answers to a poll GET: status is result_data.get("status"); result_kind says
\* whether "result" is absent, JSON null or an object; sample is its "sample"
PollResponses ==
    {[net |-> n, status |-> None, result_kind |-> "absent", sample |-> None] :
        n \in {"transport_error", "http_error", "bad_json"}}
    \cup {[net |-> "ok", status |-> s, result_kind |-> "absent", sample |-> None] :
        s \in {"Pending", "Queued", None, "Failed", "Error", "Ready"}}
    \cup {[net |-> "ok", status |-> "Ready", result_kind |-> "null", sample |-> None]}
    \cup {[net |-> "ok", status |-> "Ready", result_kind |-> "object", sample |-> u] :
        u \in {None, ""} \cup SampleUrls}

\* answers to the download GET: content is image_response.content
FetchResponses ==
    {[net |-> "transport_error", content |-> None],
     [net |-> "http_error", content |-> "error_page"]}
    \cup {[net |-> "ok", content |-> b] : b \in Bodies}

(* ---------------------------------------------------------------------- *)
(* Pure parts of edit_image and _poll_for_result                          *)
(* ---------------------------------------------------------------------- *)

\* edit_image lines 61-84: what happens to the POST's answer
SubmitOutcomeNoUrlCheck(resp) ==
    IF resp.net # "ok" THEN "exception" ELSE "ok"

SubmitOutcome(resp) ==
    IF resp.net # "ok" THEN "exception"
    ELSE IF ~Truthy(resp.polling_url) THEN "no_polling_url"
    ELSE "ok"

\* range(1, self.max_polls + 1): is n a value of poll_count
InRangeOneMore(n, mp) == 1 <= n /\ n <= mp + 1

InRangeOneFewer(n, mp) == 1 <= n /\ n < mp

InRange(n, mp) == 1 <= n /\ n <= mp

\* lines 95-101: requests.get / raise_for_status / json() raise
PollRaises(resp) == resp.net # "ok"

\* lines 103-121: the branch taken on a parsed poll answer
\*   "ready"     status == "Ready"
\*   "failed"    status in ["Error", "Failed"]
\*   "continue"  neither branch: fall through to the next iteration
ClassifyStrict(resp) ==
    IF resp.status = "Ready" THEN "ready"
    ELSE IF resp.status = "Pending" THEN "continue"
    ELSE "failed"

ClassifyFailedOnly(resp) ==
    IF resp.status = "Ready" THEN "ready"
    ELSE IF resp.status = "Failed" THEN "failed"
    ELSE "continue"

Classify(resp) ==
    IF resp.status = "Ready" THEN "ready"
    ELSE IF resp.status \in {"Error", "Failed"} THEN "failed"
    ELSE "continue"

\* line 107: result_data.get("result", {}).get("sample")
\*   a JSON null "result" makes the second .get raise AttributeError
SampleLookupWrongKey(resp) ==
    IF resp.result_kind = "null" THEN "raises" ELSE None

SampleLookup(resp) ==
    IF resp.result_kind = "null" THEN "raises"
    ELSE IF resp.result_kind = "absent" THEN None
    ELSE resp.sample

\* lines 110-111: requests.get(edited_image_url) / raise_for_status raise
FetchRaisesOnTransportOnly(fresp) == fresp.net = "transport_error"

FetchRaises(fresp) == fresp.net # "ok"

\* line 113: return image_response.content
ReturnValue(fresp) == fresp.content

\* lines 123-128: both except clauses of the loop body `continue`
OnPollExceptionReturn == "return"

OnPollException == "continue"

(* ---------------------------------------------------------------------- *)
(* Python floats (IEEE 754 binary64), non-negative, as bit strings        *)
(* ---------------------------------------------------------------------- *)

\* a float is zero, infinity, or finite: m * 2^(e - 52) with m the MantBits
\* bits of its significand, most significant (always 1) first

\* bits in a binary64 significand
MantBits == 53

FZero == [kind |-> "zero", e |-> 0, m |-> <<>>]

\* float('inf')
FInf == [kind |-> "inf", e |-> 0, m |-> <<>>]

Zeros(n) == [i \in 1..n |-> 0]

RECURSIVE Normalise(_, _, _)
\* scale a/b by a power of two into [1, 2): <<a', b', e>> with a/b = a'/b' * 2^e
Normalise(a, b, e) ==
    IF a >= 2 * b THEN Normalise(a, 2 * b, e + 1)
    ELSE IF a < b THEN Normalise(2 * a, b, e - 1)
    ELSE <<a, b, e>>

RECURSIVE LongDiv(_, _, _)
\* the next k bits (k >= 1) of the binary expansion of r/b (r < b), and what
\* is left over; the bits are produced half by half
LongDiv(r, b, k) ==
    IF k = 1
    THEN LET bit == IF 2 * r >= b THEN 1 ELSE 0
         IN  [bits |-> <<bit>>, rem |-> 2 * r - bit * b]
    ELSE LET front == LongDiv(r, b, k \div 2)
             back  == LongDiv(front.rem, b, k - k \div 2)
         IN  [bits |-> front.bits \o back.bits, rem |-> back.rem]

\* the least member of a non-empty set of integers
MinOf(S) == CHOOSE x \in S : \A y \in S : x <= y

\* the greatest member of a non-empty set of integers
MaxOf(S) == CHOOSE x \in S : \A y \in S : y <= x

\* add one to a bit string; carry is 1 when it overflowed
IncBits(bits) ==
    LET zeros == {i \in DOMAIN bits : bits[i] = 0} IN
    IF zeros = {} THEN [bits |-> Zeros(Len(bits)), carry |-> 1]
    ELSE LET p == MaxOf(zeros)
         IN  [bits |-> [i \in DOMAIN bits |->
                            IF i < p THEN bits[i] ELSE IF i = p THEN 1 ELSE 0],
              carry |-> 0]

\* round-half-to-even of the value bits * 2^(e - (Len(bits) - 1)), bits[1] = 1,
\* plus a non-zero tail below the last bit when sticky
RoundToFloat(bits, sticky, e) ==
    IF Len(bits) <= MantBits
    THEN [kind |-> "finite", e |-> e, m |-> bits \o Zeros(MantBits - Len(bits))]
    ELSE LET keep  == SubSeq(bits, 1, MantBits)
             guard == bits[MantBits + 1]
             tail  == sticky \/ \E i \in (MantBits + 2)..Len(bits) : bits[i] = 1
             up    == guard = 1 /\ (tail \/ keep[MantBits] = 1)
             inc   == IncBits(keep)
         IN  IF ~up THEN [kind |-> "finite", e |-> e, m |-> keep]
             ELSE IF inc.carry = 1
             THEN [kind |-> "finite", e |-> e + 1, m |-> <<1>> \o Zeros(MantBits - 1)]
             ELSE [kind |-> "finite", e |-> e, m |-> inc.bits]

\* a / b for integers a >= 0, b > 0, correctly rounded
FDiv(a, b) ==
    IF a = 0 THEN FZero
    ELSE LET nrm == Normalise(a, b, 0)
             q   == LongDiv(nrm[1] - nrm[2], nrm[2], MantBits)
         IN  RoundToFloat(<<1>> \o q.bits, q.rem > 0, nrm[3])

\* bit strings of one length, compared as numbers
LexLess(a, b) ==
    LET differ == {i \in DOMAIN a : a[i] # b[i]} IN
    IF differ = {} THEN FALSE
    ELSE a[MinOf(differ)] < b[MinOf(differ)]

\* x <= y in place of x < y
FLessOrEqual(x, y) ==
    IF x = y THEN TRUE
    ELSE IF x.kind = "inf" \/ y.kind = "zero" THEN FALSE
    ELSE IF y.kind = "inf" \/ x.kind = "zero" THEN TRUE
    ELSE IF x.e # y.e THEN x.e < y.e
    ELSE LexLess(x.m, y.m)

\* x < y
FLess(x, y) ==
    IF x.kind = "inf" \/ y.kind = "zero" THEN FALSE
    ELSE IF y.kind = "inf" \/ x.kind = "zero" THEN TRUE
    ELSE IF x.e # y.e THEN x.e < y.e
    ELSE LexLess(x.m, y.m)

RECURSIVE SubBits(_, _, _)
\* a - b - borrow for non-empty bit strings of one length, half by half from
\* the low end; borrow is 1 when the result would be negative
SubBits(a, b, borrow) ==
    LET n == Len(a) IN
    IF n = 1
    THEN LET t == a[1] - b[1] - borrow
         IN  [bits |-> <<IF t < 0 THEN t + 2 ELSE t>>, borrow |-> IF t < 0 THEN 1 ELSE 0]
    ELSE LET h    == n \div 2
             low  == SubBits(SubSeq(a, h + 1, n), SubSeq(b, h + 1, n), borrow)
             high == IF low.borrow = 1
                     THEN SubBits(SubSeq(a, 1, h), SubSeq(b, 1, h), 1)
                     ELSE SubBits(SubSeq(a, 1, h), SubSeq(b, 1, h), 0)
         IN  [bits |-> high.bits \o low.bits, borrow |-> high.borrow]

\* the number of zeros before the first 1 of a bit string that has a 1
LeadingZeros(bits) == MinOf({i \in DOMAIN bits : bits[i] = 1}) - 1

\* abs(x - y) for finite x, y, correctly rounded
FAbsDiff(x, y) ==
    IF x = y THEN FZero
    ELSE IF x.kind = "zero" THEN y
    ELSE IF y.kind = "zero" THEN x
    ELSE LET big   == IF FLess(x, y) THEN y ELSE x
             small == IF FLess(x, y) THEN x ELSE y
             d     == big.e - small.e
             diff  == SubBits(big.m \o Zeros(d), Zeros(d) \o small.m, 0).bits
             z     == LeadingZeros(diff)
         IN  RoundToFloat(SubSeq(diff, z + 1, Len(diff)), FALSE, big.e - z)

(* ---------------------------------------------------------------------- *)
(* ImageProcessor (src/src/utils.py)                                      *)
(* ---------------------------------------------------------------------- *)

\* SUPPORTED_RATIOS, in the order the dict enumerates it
SUPPORTED_RATIOS ==
    << [label |-> "1:1",  r_w |-> 1,  r_h |-> 1],
       [label |-> "4:3",  r_w |-> 4,  r_h |-> 3],
       [label |-> "3:4",  r_w |-> 3,  r_h |-> 4],
       [label |-> "16:9", r_w |-> 16, r_h |-> 9],
       [label |-> "9:16", r_w |-> 9,  r_h |-> 16],
       [label |-> "21:9", r_w |-> 21, r_h |-> 9],
       [label |-> "9:21", r_w |-> 9,  r_h |-> 21],
       [label |-> "3:2",  r_w |-> 3,  r_h |-> 2],
       [label |-> "2:3",  r_w |-> 2,  r_h |-> 3],
       [label |-> "7:3",  r_w |-> 7,  r_h |-> 3],
       [label |-> "3:7",  r_w |-> 3,  r_h |-> 7] >>

\* the labels of the table
RatioLabels == {SUPPORTED_RATIOS[i].label : i \in DOMAIN SUPPORTED_RATIOS}

RECURSIVE gcd(_, _)
\* ImageProcessor.gcd: while b: a, b = b, a % b
gcd(a, b) == IF b # 0 THEN gcd(b, a % b) ELSE a

\* the except clause of get_aspect_ratio falling off its end
ExceptLabelMissing == None

\* line 58: the label returned from the except clause
ExceptLabel == "1:1"

\* line 39 with the unreduced width
CurrentRatioUnreduced(width, height, ratio_gcd) ==
    FDiv(width, height \div ratio_gcd)

\* lines 35-39: current_ratio = ratio_width / ratio_height
CurrentRatio(width, height, ratio_gcd) ==
    FDiv(width \div ratio_gcd, height \div ratio_gcd)

RECURSIVE ClosestFrom(_, _, _, _)
\* lines 43-48: the loop over the table from entry i on
ClosestFrom(current_ratio, i, min_diff, closest) ==
    IF i > Len(SUPPORTED_RATIOS) THEN closest
    ELSE LET target_ratio == FDiv(SUPPORTED_RATIOS[i].r_w, SUPPORTED_RATIOS[i].r_h)
             diff == FAbsDiff(current_ratio, target_ratio)
         IN  IF FLess(diff, min_diff)
             THEN ClosestFrom(current_ratio, i + 1, diff, SUPPORTED_RATIOS[i].label)
             ELSE ClosestFrom(current_ratio, i + 1, min_diff, closest)

\* get_aspect_ratio on an image of the given size: lines 34-58.  The integer
\* division by a zero gcd and the float division by a zero height raise
\* ZeroDivisionError, which the except clause turns into ExceptLabel
get_aspect_ratio(width, height) ==
    LET ratio_gcd == gcd(width, height) IN
    IF ratio_gcd = 0 THEN ExceptLabel
    ELSE IF height \div ratio_gcd = 0 THEN ExceptLabel
    ELSE ClosestFrom(CurrentRatio(width, height, ratio_gcd), 1, FInf, "1:1")

(* ---------------------------------------------------------------------- *)
(* Log entries                                                            *)
(* ---------------------------------------------------------------------- *)

\* line 93 with a wait that grows with the iteration
SleepEventBackoff(n) == [type |-> "SLEEP", secs |-> BFL_POLL_INTERVAL * n, n |-> n]

PostEvent(resp) == [type |-> "POST", url |-> BFL_API_URL, n |-> 0, resp |-> resp]

SleepEvent(n) == [type |-> "SLEEP", secs |-> BFL_POLL_INTERVAL, n |-> n]

PollEvent(url, n, resp) == [type |-> "POLL", url |-> url, n |-> n, resp |-> resp]

FetchEvent(url, n, fresp) == [type |-> "FETCH", url |-> url, n |-> n, resp |-> fresp]

(* ---------------------------------------------------------------------- *)
(* State machine                                                          *)
(* ---------------------------------------------------------------------- *)

\* no image has been classified
ClassifierIdle ==
    /\ image_size = <<1, 1>>
    /\ scale = 1
    /\ closest_ratio = [of |-> "unset", of_scaled |-> "unset"]

\* a fresh conversation: empty user_data, nothing handled, nothing submitted
BotIdle ==
    /\ user_data = [k \in {} |-> None]
    /\ updates = <<>>
    /\ jobs = <<>>

\* BFLImageEditor.__init__ reads max_polls from Config; every call is about
\* to run edit_image
Init ==
    /\ ClassifierIdle
    /\ BotIdle
    /\ max_polls \in 0..MaxPolls
    /\ pc = [c \in Calls |-> "submit"]
    /\ poll_count = [c \in Calls |-> 0]
    /\ polling_url = [c \in Calls |-> None]
    /\ events = [c \in Calls |-> <<>>]
    /\ result = [c \in Calls |-> None]
    /\ exit = [c \in Calls |-> "running"]

\* the call returns v from the return statement named by site
Return(c, site, v) ==
    /\ pc' = [pc EXCEPT ![c] = "done"]
    /\ exit' = [exit EXCEPT ![c] = site]
    /\ result' = [result EXCEPT ![c] = v]

\* the loop counter kept on the shared BFLImageEditor instead of in a local
LoopToShared(c, n) ==
    IF InRange(n, max_polls)
    THEN /\ pc' = [pc EXCEPT ![c] = "loop"]
         /\ poll_count' = [d \in Calls |-> n]
         /\ UNCHANGED <<result, exit>>
    ELSE /\ Return(c, "timeout", None)
         /\ UNCHANGED poll_count

\* the for statement takes its next value n, or the loop is exhausted and
\* lines 130-131 return None
LoopTo(c, n) ==
    IF InRange(n, max_polls)
    THEN /\ pc' = [pc EXCEPT ![c] = "loop"]
         /\ poll_count' = [poll_count EXCEPT ![c] = n]
         /\ UNCHANGED <<result, exit>>
    ELSE /\ Return(c, "timeout", None)
         /\ UNCHANGED poll_count

\* edit_image, lines 61-87, when the POST or the parsing of its answer raises
SubmitException(c) ==
    /\ pc[c] = "submit"
    /\ \E resp \in SubmitResponses :
        /\ SubmitOutcome(resp) = "exception"
        /\ events' = [events EXCEPT ![c] = Append(@, PostEvent(resp))]
    /\ Return(c, "post_exception", None)
    /\ UNCHANGED <<max_polls, poll_count, polling_url>>

\* edit_image, lines 73-75: no polling_url in the answer
SubmitNoPollingUrl(c) ==
    /\ pc[c] = "submit"
    /\ \E resp \in SubmitResponses :
        /\ SubmitOutcome(resp) = "no_polling_url"
        /\ events' = [events EXCEPT ![c] = Append(@, PostEvent(resp))]
    /\ Return(c, "no_polling_url", None)
    /\ UNCHANGED <<max_polls, poll_count, polling_url>>

\* edit_image, lines 77-80: enter _poll_for_result
SubmitOk(c) ==
    /\ pc[c] = "submit"
    /\ \E resp \in SubmitResponses :
        /\ SubmitOutcome(resp) = "ok"
        /\ events' = [events EXCEPT ![c] = Append(@, PostEvent(resp))]
        /\ polling_url' = [polling_url EXCEPT ![c] = resp.polling_url]
    /\ LoopTo(c, 1)
    /\ UNCHANGED max_polls

\* line 93: await asyncio.sleep(self.poll_interval)
Sleep(c) ==
    /\ pc[c] = "loop"
    /\ pc' = [pc EXCEPT ![c] = "poll"]
    /\ events' = [events EXCEPT ![c] = Append(@, SleepEvent(poll_count[c]))]
    /\ UNCHANGED <<max_polls, poll_count, polling_url, result, exit>>

\* what the except clauses of the loop body do
AfterPollException(c) ==
    IF OnPollException = "continue"
    THEN LoopTo(c, poll_count[c] + 1)
    ELSE Return(c, "poll_exception", None) /\ UNCHANGED poll_count

\* lines 95-101 raise; lines 123-128
PollException(c) ==
    /\ pc[c] = "poll"
    /\ \E resp \in PollResponses :
        /\ PollRaises(resp)
        /\ events' = [events EXCEPT ![c] =
                        Append(@, PollEvent(polling_url[c], poll_count[c], resp))]
    /\ AfterPollException(c)
    /\ UNCHANGED <<max_polls, polling_url>>

\* lines 103-121 take neither branch
PollContinue(c) ==
    /\ pc[c] = "poll"
    /\ \E resp \in PollResponses :
        /\ ~PollRaises(resp)
        /\ Classify(resp) = "continue"
        /\ events' = [events EXCEPT ![c] =
                        Append(@, PollEvent(polling_url[c], poll_count[c], resp))]
    /\ LoopTo(c, poll_count[c] + 1)
    /\ UNCHANGED <<max_polls, polling_url>>

\* lines 118-121
PollFailed(c) ==
    /\ pc[c] = "poll"
    /\ \E resp \in PollResponses :
        /\ ~PollRaises(resp)
        /\ Classify(resp) = "failed"
        /\ events' = [events EXCEPT ![c] =
                        Append(@, PollEvent(polling_url[c], poll_count[c], resp))]
    /\ Return(c, "failed", None)
    /\ UNCHANGED <<max_polls, poll_count, polling_url>>

\* lines 106-107 with "result": null; AttributeError, lines 126-128
PollReadyLookupRaises(c) ==
    /\ pc[c] = "poll"
    /\ \E resp \in PollResponses :
        /\ ~PollRaises(resp)
        /\ Classify(resp) = "ready"
        /\ SampleLookup(resp) = "raises"
        /\ events' = [events EXCEPT ![c] =
                        Append(@, PollEvent(polling_url[c], poll_count[c], resp))]
    /\ AfterPollException(c)
    /\ UNCHANGED <<max_polls, polling_url>>

\* lines 106-108, 114-116 without the return of line 116
PollReadyNoSampleContinues(c) ==
    /\ pc[c] = "poll"
    /\ \E resp \in PollResponses :
        /\ ~PollRaises(resp)
        /\ Classify(resp) = "ready"
        /\ SampleLookup(resp) # "raises"
        /\ ~Truthy(SampleLookup(resp))
        /\ events' = [events EXCEPT ![c] =
                        Append(@, PollEvent(polling_url[c], poll_count[c], resp))]
    /\ LoopTo(c, poll_count[c] + 1)
    /\ UNCHANGED <<max_polls, polling_url>>

\* lines 106-108, 114-116
PollReadyNoSample(c) ==
    /\ pc[c] = "poll"
    /\ \E resp \in PollResponses :
        /\ ~PollRaises(resp)
        /\ Classify(resp) = "ready"
        /\ SampleLookup(resp) # "raises"
        /\ ~Truthy(SampleLookup(resp))
        /\ events' = [events EXCEPT ![c] =
                        Append(@, PollEvent(polling_url[c], poll_count[c], resp))]
    /\ Return(c, "no_sample", None)
    /\ UNCHANGED <<max_polls, poll_count, polling_url>>

\* lines 106-113
PollReadyFetchOk(c) ==
    /\ pc[c] = "poll"
    /\ \E resp \in PollResponses, fresp \in FetchResponses :
        /\ ~PollRaises(resp)
        /\ Classify(resp) = "ready"
        /\ SampleLookup(resp) # "raises"
        /\ Truthy(SampleLookup(resp))
        /\ ~FetchRaises(fresp)
        /\ events' = [events EXCEPT ![c] =
                        @ \o <<PollEvent(polling_url[c], poll_count[c], resp),
                               FetchEvent(SampleLookup(resp), poll_count[c], fresp)>>]
        /\ Return(c, "ready", ReturnValue(fresp))
    /\ UNCHANGED <<max_polls, poll_count, polling_url>>

\* lines 106-111 raise inside the loop's try; lines 123-125
PollReadyFetchException(c) ==
    /\ pc[c] = "poll"
    /\ \E resp \in PollResponses, fresp \in FetchResponses :
        /\ ~PollRaises(resp)
        /\ Classify(resp) = "ready"
        /\ SampleLookup(resp) # "raises"
        /\ Truthy(SampleLookup(resp))
        /\ FetchRaises(fresp)
        /\ events' = [events EXCEPT ![c] =
                        @ \o <<PollEvent(polling_url[c], poll_count[c], resp),
                               FetchEvent(SampleLookup(resp), poll_count[c], fresp)>>]
    /\ AfterPollException(c)
    /\ UNCHANGED <<max_polls, polling_url>>

\* one step of the Edit call c
EditStep(c) ==
    \/ SubmitException(c)
    \/ SubmitNoPollingUrl(c)
    \/ SubmitOk(c)
    \/ Sleep(c)
    \/ PollException(c)
    \/ PollContinue(c)
    \/ PollFailed(c)
    \/ PollReadyLookupRaises(c)
    \/ PollReadyNoSample(c)
    \/ PollReadyFetchOk(c)
    \/ PollReadyFetchException(c)

\* one awaited Edit call
Next == EditStep("c1") /\ UNCHANGED <<classifier_vars, bot_vars>>

Spec == Init /\ [][Next]_vars

\* the event loop resumes a coroutine whose sleep or HTTP call has returned
FairSpec == Spec /\ WF_vars(Next)

\* no Edit call has been started
EditIdle ==
    /\ max_polls = 0
    /\ pc = [c \in Calls |-> "submit"]
    /\ poll_count = [c \in Calls |-> 0]
    /\ polling_url = [c \in Calls |-> None]
    /\ events = [c \in Calls |-> <<>>]
    /\ result = [c \in Calls |-> None]
    /\ exit = [c \in Calls |-> "running"]

\* image sizes beyond MaxDim: the examples of the specification, the table's
\* own wide entries, and a size half-way between two entries
ExtraSizes ==
    {<<1920, 1080>>, <<1080, 1920>>, <<100, 100>>,
     <<16, 9>>, <<9, 16>>, <<21, 9>>, <<9, 21>>, <<59, 96>>}

\* image.size of the images classified
ImageSizes == ((0..MaxDim) \X (0..MaxDim)) \cup ExtraSizes

\* an image of some size, and a factor to scale it by
ClassifierInit ==
    /\ image_size \in ImageSizes
    /\ scale \in 1..MaxScale
    /\ closest_ratio = [of |-> "unset", of_scaled |-> "unset"]
    /\ EditIdle
    /\ BotIdle

\* get_aspect_ratio on the image, and on the image scaled up
ClassifyImage ==
    /\ closest_ratio.of = "unset"
    /\ closest_ratio' =
          [of |-> get_aspect_ratio(image_size[1], image_size[2]),
           of_scaled |-> get_aspect_ratio(scale * image_size[1], scale * image_size[2])]
    /\ UNCHANGED <<image_size, scale, edit_vars, bot_vars>>

ClassifierNext == ClassifyImage

ClassifierSpec == ClassifierInit /\ [][ClassifierNext]_vars

(* ---------------------------------------------------------------------- *)
(* TelegramBot handlers (src/src/bot.py), one conversation                *)
(* ---------------------------------------------------------------------- *)

\* photos a user can send: the bytes (named), their length in megabytes,
\* whether PIL can open them, and the pixel size
Photos ==
    {[id |-> "photo_a", megabytes |-> 20, decodable |-> TRUE, width |-> 16, height |-> 9],
     [id |-> "photo_big", megabytes |-> 21, decodable |-> TRUE, width |-> 4, height |-> 3],
     [id |-> "photo_bad", megabytes |-> 1, decodable |-> FALSE, width |-> 0, height |-> 0]}

\* message.caption: absent, blank, or an instruction
Captions == {None, "  ", " add a hat "}

\* message.text of a non-command text message
Prompts == {"make it red"}

\* what edit_image returns to _process_edit: None or the edited bytes
EditReturns == {None, "img_1"}

\* str.strip() on the captions above
Strip(caption) ==
    IF caption = "  " THEN ""
    ELSE IF caption = " add a hat " THEN "add a hat"
    ELSE caption

\* base64.b64encode(photo_bytes).decode("utf-8")
B64(photo) == [b64 |-> photo.id]

\* ImageProcessor.validate_image_size: False when size_mb > max_size_mb
validate_image_size(photo, max_size_mb) == ~(photo.megabytes > max_size_mb)

\* get_aspect_ratio(photo_bytes): Image.open raising ends in the except clause
AspectRatioOfBytes(photo) ==
    IF ~photo.decodable THEN ExceptLabel
    ELSE get_aspect_ratio(photo.width, photo.height)

\* line 201 for each photo a user can send
PhotoRatio == [photo \in Photos |-> AspectRatioOfBytes(photo)]

\* lines 204-205 storing the photo only
StoredUserDataPhotoOnly(ud, photo, aspect_ratio) ==
    [k \in DOMAIN ud \cup {"photo"} |->
        IF k = "photo" THEN B64(photo) ELSE ud[k]]

\* handle_photo lines 204-205: user_data["photo"], user_data["aspect_ratio"]
StoredUserData(ud, photo, aspect_ratio) ==
    [k \in DOMAIN ud \cup {"photo", "aspect_ratio"} |->
        IF k = "photo" THEN B64(photo)
        ELSE IF k = "aspect_ratio" THEN aspect_ratio
        ELSE ud[k]]

\* _process_edit, lines 244-281, never writes user_data
UserDataAfterEdit(ud, edited_image_bytes) == ud

\* the arguments _process_edit passes to edit_image (lines 245-259);
\* defaulted tells whether Config.DEFAULT_ASPECT_RATIO stood in, at is the
\* update whose handler submits, epoch the number of writes to user_data
\* that came before the read of lines 245-246
EditJob(ud, prompt, at, epoch) ==
    [input_image |-> ud["photo"],
     prompt |-> prompt,
     aspect_ratio |-> IF "aspect_ratio" \in DOMAIN ud
                      THEN ud["aspect_ratio"] ELSE DEFAULT_ASPECT_RATIO,
     defaulted |-> "aspect_ratio" \notin DOMAIN ud,
     at |-> at,
     epoch |-> epoch]

\* the outcome message of _process_edit, lines 261-277
EditReply(edited_image_bytes) ==
    IF Truthy(edited_image_bytes) THEN "edited_image_sent" ELSE "edit_failed"

\* the answers to an exception raised in the try block of _process_edit:
\* line 281 answers "An error occurred"; when it raises too, the exception
\* escapes to handle_photo, whose line 226 answers or raises, or out of
\* handle_text, which has no try
ErrorReplies(kind) ==
    IF kind = "photo" THEN {"process_error", "error", "none"}
    ELSE {"process_error", "none"}

\* no request prepared
NoRequest ==
    [input_image |-> [b64 |-> None], prompt |-> None, aspect_ratio |-> None,
     defaulted |-> FALSE, at |-> 0, epoch |-> 0]

\* an update and the position of its handler: pc is the await the handler
\* is held in, or "done". staged tells what the handler found when it
\* tested "photo" in user_data; wrote_at is the ordinal of its write to
\* user_data among all writes, 0 when it has not written; request holds
\* the locals image_base64 and aspect_ratio of _process_edit and its prompt
Update(kind, photo, fetched, text, raised, reply, held_in, staged, wrote_at) ==
    [kind |-> kind, photo |-> photo, fetched |-> fetched, text |-> text,
     raised |-> raised, reply |-> reply, pc |-> held_in, staged |-> staged,
     wrote_at |-> wrote_at, request |-> NoRequest]

\* no photo attached to the update
NoPhoto == [id |-> None, megabytes |-> 0, decodable |-> FALSE, width |-> 0, height |-> 0]

\* where the first Telegram exception came from, given the message that
\* the handler sends when none is raised
RaisedUnless(reply, expected) == IF reply = expected THEN "none" ELSE "outcome"

\* the writes to user_data so far
Writes == Cardinality({i \in DOMAIN updates : updates[i].wrote_at > 0})

\* the handler of update i ends
Finish(i, raised, reply) ==
    updates' = [updates EXCEPT ![i].raised = raised, ![i].reply = reply,
                               ![i].pc = "done"]

BotInit ==
    /\ BotIdle
    /\ EditIdle
    /\ ClassifierIdle

\* clear_command, lines 169-175; reply_text may raise after the clear
ClearCommand ==
    /\ Len(updates) < MaxUpdates
    /\ IF "photo" \in DOMAIN user_data
       THEN /\ user_data' = [k \in {} |-> None]
            /\ \E reply \in {"cleared", "none"} :
                  updates' = Append(updates,
                      Update("clear", NoPhoto, FALSE, None,
                             RaisedUnless(reply, "cleared"), reply,
                             "done", TRUE, Writes + 1))
       ELSE /\ user_data' = user_data
            /\ \E reply \in {"nothing_to_clear", "none"} :
                  updates' = Append(updates,
                      Update("clear", NoPhoto, FALSE, None,
                             RaisedUnless(reply, "nothing_to_clear"), reply,
                             "done", FALSE, 0))
    /\ UNCHANGED jobs

\* handle_photo is entered, lines 177-191: the handler is held in the
\* awaits of reply_text, get_file and download_as_bytes
ReceivePhoto ==
    /\ Len(updates) < MaxUpdates
    /\ \E photo \in Photos, caption \in Captions :
          updates' = Append(updates,
              Update("photo", photo, FALSE, caption, "none", "none",
                     "download", FALSE, 0))
    /\ UNCHANGED <<user_data, jobs>>

\* handle_photo, lines 187-191 raise: the except clause of lines 224-226
\* answers, unless its reply_text raises too
HandlePhotoDownloadFails(i) ==
    /\ updates[i].kind = "photo"
    /\ updates[i].pc = "download"
    /\ \E reply \in {"error", "none"} : Finish(i, "download", reply)
    /\ UNCHANGED <<user_data, jobs>>

\* handle_photo, lines 193-198: the photo exceeds the size limit
HandlePhotoTooLarge(i) ==
    /\ updates[i].kind = "photo"
    /\ updates[i].pc = "download"
    /\ ~validate_image_size(updates[i].photo, MAX_IMAGE_SIZE_MB)
    /\ \E reply \in {"too_large", "error", "none"} :
          updates' = [updates EXCEPT ![i].fetched = TRUE,
                                     ![i].raised = RaisedUnless(reply, "too_large"),
                                     ![i].reply = reply,
                                     ![i].pc = "done"]
    /\ UNCHANGED <<user_data, jobs>>

\* handle_photo, lines 193-207 and 216-222: the photo is stored; without a
\* caption the handler answers and ends, with one it is held in the await
\* of line 209
HandlePhotoStaged(i) ==
    /\ updates[i].kind = "photo"
    /\ updates[i].pc = "download"
    /\ validate_image_size(updates[i].photo, MAX_IMAGE_SIZE_MB)
    /\ user_data' = StoredUserData(user_data, updates[i].photo,
                                   PhotoRatio[updates[i].photo])
    /\ IF Truthy(updates[i].text) /\ Truthy(Strip(updates[i].text))
       THEN updates' = [updates EXCEPT ![i].fetched = TRUE,
                                       ![i].pc = "progress",
                                       ![i].staged = TRUE,
                                       ![i].wrote_at = Writes + 1]
       ELSE \E reply \in {"image_received", "error", "none"} :
               updates' = [updates EXCEPT
                              ![i].fetched = TRUE,
                              ![i].raised = RaisedUnless(reply, "image_received"),
                              ![i].reply = reply,
                              ![i].pc = "done",
                              ![i].staged = TRUE,
                              ![i].wrote_at = Writes + 1]
    /\ UNCHANGED jobs

\* _process_edit, lines 244-249, for update i with the given prompt: the
\* locals are read from user_data and the handler is held in the await of
\* edit_text; when "photo" is missing line 245 raises KeyError
ProcessEditRead(i, prompt) ==
    IF "photo" \in DOMAIN user_data
    THEN updates' = [updates EXCEPT
                        ![i].request = EditJob(user_data, prompt, i, Writes),
                        ![i].pc = "editing"]
    ELSE \E reply \in ErrorReplies(updates[i].kind) :
            Finish(i, "key_error", reply)

\* handle_photo resumes from the await of line 209: lines 209-215 and
\* _process_edit up to its first await
HandlePhotoWithCaption(i) ==
    /\ updates[i].kind = "photo"
    /\ updates[i].pc = "progress"
    /\ \/ \* edit_text of line 209 raises
          \E error_reply \in {"error", "none"} : Finish(i, "progress", error_reply)
       \/ ProcessEditRead(i, Strip(updates[i].text))
    /\ UNCHANGED <<user_data, jobs>>

\* _process_edit resumes from the await of line 249: edit_text raised, or
\* edit_image is called with the locals (lines 257-259), POSTs them and is
\* held in its awaits
ProcessEditSubmit(i) ==
    /\ updates[i].pc = "editing"
    /\ \/ /\ \E reply \in ErrorReplies(updates[i].kind) :
                Finish(i, "progress", reply)
          /\ UNCHANGED jobs
       \/ /\ jobs' = Append(jobs, updates[i].request)
          /\ updates' = [updates EXCEPT ![i].pc = "edit_image"]
    /\ UNCHANGED user_data

\* _process_edit resumes from the await of line 257 with what edit_image
\* returns: lines 261-281, the outcome message or, when a Telegram call of
\* lines 263-277 raises, the answer to the exception
ProcessEditOutcome(i) ==
    /\ updates[i].pc = "edit_image"
    /\ \E edited_image_bytes \in EditReturns :
          /\ user_data' = UserDataAfterEdit(user_data, edited_image_bytes)
          /\ \/ Finish(i, "none", EditReply(edited_image_bytes))
             \/ \E reply \in ErrorReplies(updates[i].kind) :
                   Finish(i, "outcome", reply)
    /\ UNCHANGED jobs

\* handle_text, lines 230-234: nothing staged
HandleTextNoPhoto ==
    /\ Len(updates) < MaxUpdates
    /\ "photo" \notin DOMAIN user_data
    /\ \E prompt \in Prompts, reply \in {"send_photo_first", "none"} :
          updates' = Append(updates,
              Update("text", NoPhoto, FALSE, prompt,
                     RaisedUnless(reply, "send_photo_first"), reply,
                     "done", FALSE, 0))
    /\ UNCHANGED <<user_data, jobs>>

\* handle_text, lines 230-237: an image is staged, the handler is held in
\* the await of reply_text
ReceiveText ==
    /\ Len(updates) < MaxUpdates
    /\ "photo" \in DOMAIN user_data
    /\ \E prompt \in Prompts :
          updates' = Append(updates,
              Update("text", NoPhoto, FALSE, prompt, "none", "none",
                     "progress", TRUE, 0))
    /\ UNCHANGED <<user_data, jobs>>

\* handle_text resumes from the await of line 237: lines 237-239 and
\* _process_edit up to its first await
HandleTextEdit(i) ==
    /\ updates[i].kind = "text"
    /\ updates[i].pc = "progress"
    /\ \/ \* reply_text of line 237 raises
          Finish(i, "progress", "none")
       \/ ProcessEditRead(i, updates[i].text)
    /\ UNCHANGED <<user_data, jobs>>

\* the handlers are coroutines on one event loop: a handler runs from one
\* await to the next without interruption, and the handlers of other
\* updates may run while it is held in an await
BotNext ==
    /\ \/ ClearCommand
       \/ ReceivePhoto
       \/ HandleTextNoPhoto
       \/ ReceiveText
       \/ \E i \in DOMAIN updates :
             \/ HandlePhotoDownloadFails(i)
             \/ HandlePhotoTooLarge(i)
             \/ HandlePhotoStaged(i)
             \/ HandlePhotoWithCaption(i)
             \/ HandleTextEdit(i)
             \/ ProcessEditSubmit(i)
             \/ ProcessEditOutcome(i)
    /\ UNCHANGED <<edit_vars, classifier_vars>>

BotSpec == BotInit /\ [][BotNext]_vars

\* two Edit calls on one BFLImageEditor, e.g. for two users
ConcInit ==
    /\ ClassifierIdle
    /\ BotIdle
    /\ max_polls \in 0..ConcMaxPolls
    /\ pc = [c \in Calls |-> "submit"]
    /\ poll_count = [c \in Calls |-> 0]
    /\ polling_url = [c \in Calls |-> None]
    /\ events = [c \in Calls |-> <<>>]
    /\ result = [c \in Calls |-> None]
    /\ exit = [c \in Calls |-> "running"]

\* either call takes its next step
ConcNext == (\E c \in Calls : EditStep(c)) /\ UNCHANGED <<classifier_vars, bot_vars>>

ConcSpec == ConcInit /\ [][ConcNext]_vars

(* ---------------------------------------------------------------------- *)
(* Reading the log of a call                                              *)
(* ---------------------------------------------------------------------- *)

\* positions of the entries of one type in the log of c
Idx(c, t) == {i \in DOMAIN events[c] : events[c][i].type = t}

NumPosts(c) == Cardinality(Idx(c, "POST"))

NumPolls(c) == Cardinality(Idx(c, "POLL"))

NumFetches(c) == Cardinality(Idx(c, "FETCH"))

\* HTTP requests issued after position i
RequestsAfter(c, i) ==
    {j \in DOMAIN events[c] : j > i /\ events[c][j].type \in {"POST", "POLL", "FETCH"}}

\* the poll at position i is the k-th poll request of the call
PollOrdinal(c, i) == Cardinality({j \in Idx(c, "POLL") : j <= i})

\* the last poll request of the call (0 when there is none)
LastPoll(c) ==
    IF Idx(c, "POLL") = {} THEN 0
    ELSE CHOOSE i \in Idx(c, "POLL") : \A j \in Idx(c, "POLL") : j <= i

\* a parsed poll answer carrying the given status
Answered(e, statuses) == e.type = "POLL" /\ e.resp.net = "ok" /\ e.resp.status \in statuses

\* a parsed Ready answer carrying a result locator
ReadyWithLocator(e) ==
    /\ Answered(e, {"Ready"})
    /\ e.resp.result_kind = "object"
    /\ Truthy(e.resp.sample)

\* the call has ended without result bytes
EndedWithoutBytes(c) == pc[c] = "done" /\ result[c] = None

\* the poll at position i did not end the call: it used up iteration n, and
\* the call either suspends for iteration n + 1 or, with the budget spent,
\* ends as timed out
PollingWentOn(c, i) ==
    LET n == events[c][i].n IN
    /\ n = PollOrdinal(c, i)
    /\ IF n < max_polls
       THEN /\ i = Len(events[c]) =>
                 pc[c] = "loop" /\ poll_count[c] = n + 1 /\ exit[c] = "running"
            /\ i < Len(events[c]) => events[c][i + 1] = SleepEvent(n + 1)
       ELSE /\ i = Len(events[c])
            /\ EndedWithoutBytes(c)
            /\ exit[c] = "timeout"

(* ---------------------------------------------------------------------- *)
(* Claims                                                                 *)
(* ---------------------------------------------------------------------- *)

\* C1: a failed result download ends the Edit call with a failure and is not
\* retried: the call is over, it returned no bytes, and no HTTP request of any
\* kind follows the failed download.
C1_FetchFailureIsFinal ==
    \A c \in Calls : \A i \in Idx(c, "FETCH") :
        events[c][i].resp.net # "ok" =>
            /\ EndedWithoutBytes(c)
            /\ RequestsAfter(c, i) = {}

\* C2: at most one terminal status is classified per Edit call: after a poll
\* answer with status Ready, Failed or Error no later poll answer is read.
C2_OneTerminalClassification ==
    \A c \in Calls : \A i \in Idx(c, "POLL") :
        Answered(events[c][i], {"Ready", "Failed", "Error"}) =>
            \A j \in Idx(c, "POLL") : j <= i

\* every poll request of c so far was answered Pending
AllPending(c) == \A i \in Idx(c, "POLL") : Answered(events[c][i], {"Pending"})

\* the submission of c was accepted and the poll loop entered
Submitted(c) == pc[c] # "submit" /\ exit[c] \notin {"post_exception", "no_polling_url"}

\* C3: when every poll answer is Pending the call ends timed out, without
\* bytes, after exactly max_polls poll requests; while it runs it has issued
\* fewer than or exactly max_polls.
C3_AllPendingTimesOut ==
    \A c \in Calls : (Submitted(c) /\ AllPending(c)) =>
        /\ NumPolls(c) <= max_polls
        /\ pc[c] = "done" =>
            /\ exit[c] = "timeout"
            /\ result[c] = None
            /\ NumPolls(c) = max_polls
        /\ pc[c] # "done" => exit[c] = "running"

C3_Witness ==
    /\ max_polls >= 2
    /\ pc["c1"] = "done"
    /\ AllPending("c1")
    /\ NumPolls("c1") = max_polls
    /\ exit["c1"] = "timeout"

\* C4: a poll answer Failed or Error at poll index k ends the call at once
\* without bytes: k poll requests were issued in all, and no poll and no
\* download follows it.
C4_FailedIsImmediate ==
    \A c \in Calls : \A i \in Idx(c, "POLL") :
        Answered(events[c][i], {"Failed", "Error"}) =>
            /\ i = Len(events[c])
            /\ EndedWithoutBytes(c)
            /\ exit[c] = "failed"
            /\ events[c][i].n = PollOrdinal(c, i)
            /\ NumPolls(c) = events[c][i].n
            /\ events[c][i].n <= max_polls

C4_Witness ==
    /\ pc["c1"] = "done"
    /\ NumPolls("c1") >= 2
    /\ Answered(events["c1"][Len(events["c1"])], {"Error"})

\* k - 1 Pending answers followed by a Ready answer with a locator
PendingThenReady(c) ==
    /\ LastPoll(c) # 0
    /\ ReadyWithLocator(events[c][LastPoll(c)])
    /\ \A i \in Idx(c, "POLL") \ {LastPoll(c)} : Answered(events[c][i], {"Pending"})

\* C5: after k - 1 Pending answers and a Ready answer with a locator, one
\* download is issued, to that locator; when it succeeds the call returns its
\* body, having issued exactly k poll requests and exactly one download.
C5_ReadyFetchesThatLocator ==
    \A c \in Calls : PendingThenReady(c) =>
        LET k == LastPoll(c) IN
        /\ NumFetches(c) = 1
        /\ Idx(c, "FETCH") = {k + 1}
        /\ events[c][k + 1].url = events[c][k].resp.sample
        /\ events[c][k].n = NumPolls(c)
        /\ events[c][k + 1].resp.net = "ok" =>
            /\ pc[c] = "done"
            /\ exit[c] = "ready"
            /\ result[c] = events[c][k + 1].resp.content
            /\ Len(events[c]) = k + 1

C5_Witness ==
    /\ PendingThenReady("c1")
    /\ NumPolls("c1") = 3
    /\ events["c1"][LastPoll("c1")].resp.sample = "sample_b"
    /\ result["c1"] = "img_2"

\* the POST's answer is a failed submission
SubmissionFailed(resp) == resp.net # "ok" \/ ~Truthy(resp.polling_url)

\* C6: exactly one POST is issued per Edit call, first of all; when it fails
\* (connection failure, non-2xx, or no polling_url) the call returns at once
\* without bytes and issues no poll, no download and no second POST.
C6_SubmissionFailureIsFinal ==
    \A c \in Calls :
        /\ NumPosts(c) <= 1
        /\ pc[c] # "submit" =>
            /\ NumPosts(c) = 1
            /\ events[c][1].type = "POST"
            /\ SubmissionFailed(events[c][1].resp) =>
                /\ EndedWithoutBytes(c)
                /\ Len(events[c]) = 1
                /\ exit[c] \in {"post_exception", "no_polling_url"}

C6_Witness ==
    /\ max_polls >= 1
    /\ pc["c1"] = "done"
    /\ events["c1"][1].resp.net = "ok"
    /\ events["c1"][1].resp.polling_url = ""
    /\ Len(events["c1"]) = 1

\* the call returned the body of a download that followed a Ready answer
ReturnedFetchedBody(c) ==
    LET n == Len(events[c]) IN
    /\ n >= 2
    /\ events[c][n].type = "FETCH"
    /\ events[c][n].resp.net = "ok"
    /\ ReadyWithLocator(events[c][n - 1])
    /\ events[c][n].url = events[c][n - 1].resp.sample
    /\ pc[c] = "done"
    /\ result[c] = events[c][n].resp.content
    /\ result[c] # None

\* C7: a poll attempt that fails at transport level does not end the call: it
\* uses up one iteration and polling goes on, or the call times out when it
\* was the last iteration; a later Ready answer still yields the bytes.
C7_PollFailureIsSkipped ==
    \A c \in Calls :
        /\ \A i \in Idx(c, "POLL") :
              events[c][i].resp.net # "ok" => PollingWentOn(c, i)
        /\ (/\ Len(events[c]) >= 2
            /\ events[c][Len(events[c])].type = "FETCH"
            /\ events[c][Len(events[c])].resp.net = "ok") => ReturnedFetchedBody(c)

C7_Witness ==
    /\ ReturnedFetchedBody("c1")
    /\ \E i \in Idx("c1", "POLL") : events["c1"][i].resp.net = "transport_error"

\* C8: a parsed poll answer whose status is none of Ready, Failed, Error
\* (Pending, an unknown string, or no status) never ends the call: the next
\* iteration follows while budget remains.
C8_OtherStatusKeepsPolling ==
    \A c \in Calls : \A i \in Idx(c, "POLL") :
        (/\ events[c][i].resp.net = "ok"
         /\ events[c][i].resp.status \notin {"Ready", "Failed", "Error"})
            => PollingWentOn(c, i)

C8_Witness ==
    /\ NumPolls("c1") = 3
    /\ Answered(events["c1"][3], {"Queued"})
    /\ Answered(events["c1"][5], {None})
    /\ ReturnedFetchedBody("c1")

\* C9: the call returns bytes only as the body of a successful download from
\* the locator of a Ready answer; a call that ended in any other way, or whose
\* latest download failed, returned none.
C9_BytesOnlyFromReadyFetch ==
    \A c \in Calls :
        /\ result[c] # None => ReturnedFetchedBody(c) /\ exit[c] = "ready"
        /\ (pc[c] = "done" /\ exit[c] # "ready") => result[c] = None
        /\ (/\ events[c] # <<>>
            /\ events[c][Len(events[c])].type = "FETCH"
            /\ events[c][Len(events[c])].resp.net # "ok") => result[c] = None
        /\ pc[c] = "done" <=> exit[c] # "running"

C9_Witness ==
    /\ ReturnedFetchedBody("c1")
    /\ \E i \in Idx("c1", "FETCH") : events["c1"][i].resp.net = "http_error"

\* C10: every Edit call ends, and it never issues more than max_polls poll
\* requests.
C10_TerminatesWithinBudget ==
    /\ [](\A c \in Calls : NumPolls(c) <= max_polls /\ poll_count[c] <= max_polls)
    /\ <>(pc["c1"] = "done")

C10_Witness ==
    /\ max_polls >= 2
    /\ pc["c1"] = "done"
    /\ NumPolls("c1") = max_polls
    /\ exit["c1"] = "ready"

NumSleeps(c) == Cardinality(Idx(c, "SLEEP"))

RECURSIVE SumSecs(_)
\* seconds spent in the suspensions of a log
SumSecs(log) ==
    IF log = <<>> THEN 0
    ELSE (IF Head(log).type = "SLEEP" THEN Head(log).secs ELSE 0) + SumSecs(Tail(log))

TotalSlept(c) == SumSecs(events[c])

\* C11: every poll request directly follows one suspension of the poll
\* interval made in the same iteration; there are as many suspensions as
\* iterations whose wait has begun, at most one more than poll requests, and
\* the time suspended never exceeds max_polls times the interval.
C11_OneSleepPerPoll ==
    \A c \in Calls :
        /\ \A i \in Idx(c, "POLL") :
              /\ i > 1
              /\ events[c][i - 1].type = "SLEEP"
              /\ events[c][i - 1].secs = BFL_POLL_INTERVAL
              /\ events[c][i - 1].n = events[c][i].n
        /\ \A i \in Idx(c, "SLEEP") :
              /\ events[c][i].secs = BFL_POLL_INTERVAL
              /\ events[c][i].n = Cardinality({j \in Idx(c, "SLEEP") : j <= i})
        /\ NumSleeps(c) = (IF pc[c] = "loop" THEN poll_count[c] - 1 ELSE poll_count[c])
        /\ NumSleeps(c) = (IF pc[c] = "poll" THEN NumPolls(c) + 1 ELSE NumPolls(c))
        /\ TotalSlept(c) = NumSleeps(c) * BFL_POLL_INTERVAL
        /\ TotalSlept(c) <= max_polls * BFL_POLL_INTERVAL

C11_Witness ==
    /\ max_polls >= 2
    /\ exit["c1"] = "timeout"
    /\ NumPolls("c1") = max_polls
    /\ TotalSlept("c1") = max_polls * BFL_POLL_INTERVAL

\* C20: a Ready answer whose result carries no locator, or an empty one, ends
\* the call at once without bytes: it is the last request of the call, no
\* download and no further poll follows, whatever budget remains.
C20_ReadyWithoutLocatorIsFinal ==
    \A c \in Calls : \A i \in Idx(c, "POLL") :
        (/\ Answered(events[c][i], {"Ready"})
         /\ events[c][i].resp.result_kind \in {"absent", "object"}
         /\ events[c][i].resp.sample \in {None, ""}) =>
            /\ i = Len(events[c])
            /\ EndedWithoutBytes(c)
            /\ exit[c] = "no_sample"
            /\ \A j \in Idx(c, "FETCH") : j < i /\ events[c][j].n < events[c][i].n

C20_Witness ==
    /\ max_polls = 3
    /\ pc["c1"] = "done"
    /\ NumPolls("c1") = 1
    /\ NumFetches("c1") = 0
    /\ Answered(events["c1"][Len(events["c1"])], {"Ready"})
    /\ events["c1"][Len(events["c1"])].resp.result_kind = "object"
    /\ events["c1"][Len(events["c1"])].resp.sample = ""

\* everything call c holds
CallState(c) == <<pc[c], poll_count[c], polling_url[c], events[c], result[c], exit[c]>>

\* after iteration n of call c raised or fell through: the next iteration, or
\* the timeout once the budget is spent
GoesOn(c, n) ==
    IF n < max_polls
    THEN pc[c] = "loop" /\ poll_count[c] = n + 1 /\ exit[c] = "running" /\ result[c] = None
    ELSE EndedWithoutBytes(c) /\ exit[c] = "timeout"

\* where call c stands, read off the answers to its own requests alone
DeterminedByOwnLog(c) ==
    LET n == Len(events[c]) IN
    IF n = 0
    THEN pc[c] = "submit" /\ poll_count[c] = 0 /\ exit[c] = "running" /\ result[c] = None
    ELSE LET last == events[c][n] IN
         CASE last.type = "POST" ->
                IF SubmissionFailed(last.resp)
                THEN EndedWithoutBytes(c) /\ exit[c] \in {"post_exception", "no_polling_url"}
                ELSE GoesOn(c, 0) /\ polling_url[c] = last.resp.polling_url
           [] last.type = "SLEEP" ->
                pc[c] = "poll" /\ poll_count[c] = last.n /\ exit[c] = "running"
           [] last.type = "POLL" ->
                IF Answered(last, {"Failed", "Error"})
                THEN EndedWithoutBytes(c) /\ exit[c] = "failed"
                ELSE IF Answered(last, {"Ready"}) /\ last.resp.result_kind # "null"
                THEN EndedWithoutBytes(c) /\ exit[c] = "no_sample"
                ELSE GoesOn(c, last.n)
           [] last.type = "FETCH" ->
                IF last.resp.net = "ok"
                THEN pc[c] = "done" /\ exit[c] = "ready" /\ result[c] = last.resp.content
                ELSE GoesOn(c, last.n)

\* call c polls the locator its own POST was answered with and downloads from
\* the locator of its own latest poll answer
UsesOwnLocators(c) ==
    /\ \A i \in Idx(c, "POLL") :
          /\ events[c][1].type = "POST"
          /\ events[c][i].url = events[c][1].resp.polling_url
    /\ \A i \in Idx(c, "FETCH") :
          /\ events[c][i - 1].type = "POLL"
          /\ events[c][i].url = events[c][i - 1].resp.sample

\* a step that extends the log of call c leaves every other call, and the
\* shared poll budget, as they were
StepTouchesOneCall ==
    \A c \in Calls : events'[c] # events[c] =>
        /\ max_polls' = max_polls
        /\ \A d \in Calls \ {c} : CallState(d)' = CallState(d)

\* C12: two Edit calls interleaved in any way are independent: each call's
\* poll count, locators and outcome follow from the answers to its own
\* requests, and a step of one call (ending it or not) changes nothing of the
\* other.
C12_CallsAreIndependent ==
    /\ [][StepTouchesOneCall]_vars
    /\ [](\A c \in Calls :
            /\ DeterminedByOwnLog(c)
            /\ UsesOwnLocators(c)
            /\ NumPolls(c) <= max_polls)

C12_Witness ==
    /\ max_polls >= 1
    /\ exit["c1"] = "timeout"
    /\ NumPolls("c1") = max_polls
    /\ exit["c2"] = "ready"
    /\ polling_url["c1"] = "poll_a"
    /\ polling_url["c2"] = "poll_b"

\* the image has been classified
Classified == closest_ratio.of # "unset"

\* both dimensions of the image are positive
PositiveSize == image_size[1] >= 1 /\ image_size[2] >= 1

\* C13: for positive w, h and k the classifier gives (w, h) and (k*w, k*h)
\* the same label.
C13_ScaleInvariant ==
    (Classified /\ PositiveSize) => closest_ratio.of = closest_ratio.of_scaled

C13_Witness ==
    /\ Classified
    /\ image_size = <<3, 2>>
    /\ scale = 3
    /\ closest_ratio.of_scaled = "3:2"

Abs(x) == IF x < 0 THEN -x ELSE x

\* in exact arithmetic, |w/h - entry i| < |w/h - entry j|
ExactlyCloser(w, h, i, j) ==
    LET ti == SUPPORTED_RATIOS[i]
        tj == SUPPORTED_RATIOS[j]
    IN  Abs(w * ti.r_h - ti.r_w * h) * tj.r_h < Abs(w * tj.r_h - tj.r_w * h) * ti.r_h

\* the label of the entry nearest to w/h in exact arithmetic, the first
\* enumerated among equally near ones
NearestFirst(w, h) ==
    LET best == CHOOSE i \in DOMAIN SUPPORTED_RATIOS :
                    /\ \A j \in DOMAIN SUPPORTED_RATIOS : ~ExactlyCloser(w, h, j, i)
                    /\ \A j \in 1..(i - 1) : ExactlyCloser(w, h, i, j)
    IN  SUPPORTED_RATIOS[best].label

\* C14: for positive w, h the classifier returns the table entry whose ratio
\* is nearest to w/h, the first enumerated one among equally near entries;
\* (1,1) -> 1:1, (1920,1080) -> 16:9, (1080,1920) -> 9:16, (100,100) -> 1:1.
C14_NearestEntryFirstOnTies ==
    (Classified /\ PositiveSize) =>
        /\ closest_ratio.of = NearestFirst(image_size[1], image_size[2])
        /\ image_size = <<1, 1>> => closest_ratio.of = "1:1"
        /\ image_size = <<1920, 1080>> => closest_ratio.of = "16:9"
        /\ image_size = <<1080, 1920>> => closest_ratio.of = "9:16"
        /\ image_size = <<100, 100>> => closest_ratio.of = "1:1"

\* C15: the classifier never fails: for all non-negative dimensions, zero
\* included, it returns a label of the table, and "1:1" when the height is 0.
C15_NeverFails ==
    Classified =>
        /\ closest_ratio.of \in RatioLabels
        /\ closest_ratio.of_scaled \in RatioLabels
        /\ image_size[2] = 0 => closest_ratio.of = "1:1"

C15_Witness ==
    /\ Classified
    /\ image_size = <<5, 0>>
    /\ closest_ratio.of = "1:1"

\* the labels other than "7:3" and "3:7"
NineLabels == RatioLabels \ {"7:3", "3:7"}

\* C19: "7:3" and "3:7" are never returned for positive dimensions: (7,3)
\* gives "21:9" and (3,7) gives "9:21"; the labels returned are the nine
\* others, each of them for an image of its own ratio.
C19_SevenThreeNeverReturned ==
    (Classified /\ PositiveSize) =>
        /\ closest_ratio.of \in NineLabels
        /\ closest_ratio.of_scaled \in NineLabels
        /\ Cardinality(NineLabels) = 9
        /\ image_size = <<7, 3>> => closest_ratio.of = "21:9"
        /\ image_size = <<3, 7>> => closest_ratio.of = "9:21"
        /\ \A i \in DOMAIN SUPPORTED_RATIOS :
              (/\ SUPPORTED_RATIOS[i].label \in NineLabels
               /\ image_size = <<SUPPORTED_RATIOS[i].r_w, SUPPORTED_RATIOS[i].r_h>>)
                  => closest_ratio.of = SUPPORTED_RATIOS[i].label

C19_Witness ==
    /\ Classified
    /\ image_size = <<7, 3>>
    /\ closest_ratio.of = "21:9"

(* ---------------------------------------------------------------------- *)
(* Conversation context                                                   *)
(* ---------------------------------------------------------------------- *)

\* the update was a photo that was downloaded and is within the size limit
Accepted(u) ==
    /\ u.kind = "photo"
    /\ u.fetched
    /\ u.photo.megabytes <= MAX_IMAGE_SIZE_MB

\* the latest write to the context stored an accepted photo: one has been
\* accepted since the last /clear that cleared
StagedByLog ==
    \E i \in DOMAIN updates :
        /\ updates[i].wrote_at > 0
        /\ updates[i].wrote_at = Writes
        /\ Accepted(updates[i])

\* update i submitted a job
JobAt(i) == \E j \in 1..Len(jobs) : jobs[j].at = i

\* the context holds a staged image
Staged == "photo" \in DOMAIN user_data

\* this step took a new update
Handled == Len(updates') = Len(updates) + 1

LastUpdate == updates'[Len(updates')]

\* this step is the write of an accepted photo
Stores ==
    \E i \in DOMAIN updates :
        /\ updates[i].wrote_at = 0
        /\ updates'[i].wrote_at > 0
        /\ Accepted(updates'[i])

\* this step is a /clear that found an image staged
Clears == Handled /\ LastUpdate.kind = "clear" /\ Staged

TextSubmitsIffStaged ==
    /\ Staged <=> StagedByLog
    /\ \A i \in DOMAIN updates :
          (updates[i].kind = "text" /\ updates[i].pc = "done") =>
              (JobAt(i) <=> updates[i].staged)

TextAndClearStep ==
    /\ (Handled /\ LastUpdate.kind = "text" /\ ~Staged) =>
          (jobs' = jobs /\ user_data' = user_data /\ LastUpdate.pc = "done")
    /\ Clears => DOMAIN user_data' = {}

\* C16: a text instruction submits a job exactly when an image is staged at
\* the moment it is handled, and an image is staged exactly when a photo
\* within the size limit has been accepted since the last /clear; a text
\* instruction with nothing staged submits nothing and leaves the context as
\* it was; /clear with an image staged empties the whole context.
C16_TextSubmitsIffStaged ==
    /\ []TextSubmitsIffStaged
    /\ [][TextAndClearStep]_vars

\* update i is inside _process_edit or about to enter it
InProcessEdit(i) == updates[i].pc \in {"progress", "editing", "edit_image"}

EditLeavesContext ==
    /\ \A i \in DOMAIN updates :
          \* the handler of update i went on through _process_edit
          (InProcessEdit(i) /\ updates'[i] # updates[i]) =>
              user_data' = user_data
    /\ \A i \in DOMAIN updates :
          \* the photo of update i was rejected
          (/\ updates[i].pc = "download"
           /\ updates'[i].pc = "done"
           /\ ~Accepted(updates'[i])) => user_data' = user_data
    /\ user_data' # user_data => (Stores \/ Clears)

\* every text instruction that found an image staged has submitted a job by
\* the time its handler ends, and jobs read from the context with no write
\* between them carry the same image and ratio
SuccessiveJobsAlike ==
    /\ \A i \in DOMAIN updates :
          (updates[i].kind = "text" /\ updates[i].staged /\ updates[i].pc = "done")
              => JobAt(i)
    /\ \A i \in 1..Len(jobs), j \in 1..Len(jobs) :
          jobs[i].epoch = jobs[j].epoch =>
             /\ jobs[i].input_image = jobs[j].input_image
             /\ jobs[i].aspect_ratio = jobs[j].aspect_ratio

\* C17: processing an edit, successful or not, leaves the staged image and
\* ratio as they were, so successive text instructions each submit a job
\* with the same image and ratio; a photo rejected for its size leaves them
\* too; only an accepted photo or /clear changes the context.
C17_EditLeavesContext ==
    /\ [][EditLeavesContext]_vars
    /\ []SuccessiveJobsAlike

\* C18: the context holds a staged image exactly when it holds a staged
\* ratio, the staged ratio is a label of the table, every job submitted
\* carries a label of the table, and the default ratio never stands in for a
\* missing one.
C18_ImageAndRatioTogether ==
    /\ Staged <=> "aspect_ratio" \in DOMAIN user_data
    /\ "aspect_ratio" \in DOMAIN user_data =>
          user_data["aspect_ratio"] \in RatioLabels
    /\ \A j \in 1..Len(jobs) :
          /\ jobs[j].aspect_ratio \in RatioLabels
          /\ ~jobs[j].defaulted

\* a captioned photo submitted a job with the ratio computed for it, then
\* /clear removed image and ratio together
C18_Witness ==
    /\ Len(updates) = 2
    /\ Accepted(updates[1])
    /\ Len(jobs) = 1
    /\ jobs[1].at = 1
    /\ jobs[1].aspect_ratio = "16:9"
    /\ updates[2].kind = "clear" /\ updates[2].reply = "cleared"
    /\ ~Staged
    /\ "aspect_ratio" \notin DOMAIN user_data

====
